---- MODULE Spec2Model ----
(***************************************************************************)
(* Model of libmbim-glib/mbim-message.c: the MbimMessage byte buffer, its  *)
(* typed constructors, dup, the fragment collector and the fragment        *)
(* splitter.                                                               *)
(*                                                                         *)
(* A guint32 is modelled as the pair <<hi, lo>> of its 16-bit halves, so   *)
(* that the full 32-bit width (message types 0x8000000x, wrap-around of    *)
(* unsigned arithmetic) is kept.  Memory is a sequence of bytes; a         *)
(* MbimMessage (a GByteArray) is the record [data, refs] with              *)
(* len = Len(data); refs = 0 means "no object" (NULL / freed).             *)
(***************************************************************************)
EXTENDS Integers, Sequences, FiniteSets, TLC

VARIABLES
    self,      \* the MbimMessage at hand (constructed, parsed or collector)
    origin,    \* how self was created: "none", "ctor", "bytes", "collector"
    frag,      \* the fragment last passed to collector_init / collector_add
    result,    \* outcome of the last call: [op, ok, err]
    accepted,  \* fragment indices the collector has accepted since init
    copy,      \* the message returned by the last mbim_message_dup chain
    descs,     \* the array returned by the last _mbim_message_split_fragments
    src,       \* transmit side message of the split/reassemble pipeline
    fed,       \* number of descriptors of descs already fed to the collector
    first,     \* the fragment passed to collector_init, as the caller holds it
    stream     \* the fragments of one message, in the order they arrive

vars == <<self, origin, frag, result, accepted, copy, descs, src, fed, first,
          stream>>

(***************************************************************************)
(* Bounds of the model.                                                    *)
(***************************************************************************)
MaxPayload == 1       \* information-buffer bytes carried by an input fragment
MaxIndex == 2         \* largest fragment_header.current / .total of an input
MaxCollPayload == 2   \* collector_add is not called beyond this many bytes
MaxRefs == 2          \* largest reference count reached by mbim_message_ref
MaxSplitPayload == 3  \* information-buffer bytes of a message given to split
MaxSlack == 1         \* |header.length - slice length| of a parsed byte slice
MaxFragments == 6     \* split is not called where it would give more descriptors
MaxStream == 4        \* fragments in one stream fed to the collector
MaxStreamPayload == 2 \* information-buffer bytes of one fragment of a stream

(***************************************************************************)
(* guint32 arithmetic on <<hi, lo>>.                                       *)
(***************************************************************************)
W16 == 65536

U32(n) == <<n \div W16, n % W16>>

U32ToNat(u) == u[1] * W16 + u[2]

U32Add(a, b) ==
    LET lo == a[2] + b[2]
    IN  <<(a[1] + b[1] + (lo \div W16)) % W16, lo % W16>>

U32Sub(a, b) ==
    LET lo == a[2] - b[2]
        borrow == IF lo < 0 THEN 1 ELSE 0
    IN  <<(a[1] - b[1] - borrow + W16) % W16, (lo + W16) % W16>>

U32Le(a, b) == a[1] < b[1] \/ (a[1] = b[1] /\ a[2] <= b[2])

(***************************************************************************)
(* Byte order conversion and raw memory access.                            *)
(***************************************************************************)
GUINT32_TO_BE(u) == <<u[1] \div 256, u[1] % 256, u[2] \div 256, u[2] % 256>>

GUINT32_TO_LE(u) == <<u[2] % 256, u[2] \div 256, u[1] % 256, u[1] \div 256>>

GUINT32_FROM_LE(b) == <<b[3] + 256 * b[4], b[1] + 256 * b[2]>>

\* the guint32 stored at byte offset off of data
Load32(data, off) == GUINT32_FROM_LE(SubSeq(data, off + 1, off + 4))

\* data with the bytes at offset off overwritten by bytes
Store(data, off, bytes) ==
    [i \in 1..Len(data) |->
        IF i > off /\ i <= off + Len(bytes) THEN bytes[i - off] ELSE data[i]]

Fill(n, b) == [i \in 1..n |-> b]

(***************************************************************************)
(* Layout of struct header, struct fragment_header and the payload structs *)
(* (mbim-message-private.h) and the MbimMessageType values.                *)
(***************************************************************************)
SizeofHeader == 12
SizeofFragmentHeader == 8
SizeofOpenMessage == 4

OffType == 0
OffLength == 4
OffTransactionId == 8
OffMessage == 12
OffFragmentTotal == 12
OffFragmentCurrent == 16
OffFragmentBuffer == 20

MBIM_MESSAGE_TYPE_INVALID == <<0, 0>>
MBIM_MESSAGE_TYPE_OPEN == <<0, 1>>
MBIM_MESSAGE_TYPE_CLOSE == <<0, 2>>
MBIM_MESSAGE_TYPE_COMMAND == <<0, 3>>
MBIM_MESSAGE_TYPE_HOST_ERROR == <<0, 4>>
MBIM_MESSAGE_TYPE_OPEN_DONE == <<32768, 1>>
MBIM_MESSAGE_TYPE_CLOSE_DONE == <<32768, 2>>
MBIM_MESSAGE_TYPE_COMMAND_DONE == <<32768, 3>>
MBIM_MESSAGE_TYPE_FUNCTION_ERROR == <<32768, 4>>
MBIM_MESSAGE_TYPE_INDICATION == <<32768, 7>>

MBIM_PROTOCOL_ERROR_INVALID == <<0, 0>>

MBIM_MESSAGE_GET_MESSAGE_TYPE(m) == Load32(m.data, OffType)
MBIM_MESSAGE_GET_MESSAGE_LENGTH(m) == Load32(m.data, OffLength)
MBIM_MESSAGE_GET_TRANSACTION_ID(m) == Load32(m.data, OffTransactionId)

NoMessage == [data |-> <<>>, refs |-> 0]


(***************************************************************************)
(* _mbim_message_allocate: a buffer of sizeof (struct header) +            *)
(* additional_size bytes whose header is filled in.  g_byte_array_set_size *)
(* does not clear the new bytes: they hold junk until written.             *)
(***************************************************************************)
\* allocate that stores the header in big-endian order
AllocateBigEndian(message_type, transaction_id, additional_size, junk) ==
    LET len == U32Add(U32(SizeofHeader), additional_size)
        d0  == Fill(U32ToNat(len), junk)
        d1  == Store(d0, OffType, GUINT32_TO_BE(message_type))
        d2  == Store(d1, OffLength, GUINT32_TO_BE(len))
        d3  == Store(d2, OffTransactionId, GUINT32_TO_BE(transaction_id))
    IN  [data |-> d3, refs |-> 1]

_mbim_message_allocate(message_type, transaction_id, additional_size, junk) ==
    LET len == U32Add(U32(SizeofHeader), additional_size)
        d0  == Fill(U32ToNat(len), junk)
        d1  == Store(d0, OffType, GUINT32_TO_LE(message_type))
        d2  == Store(d1, OffLength, GUINT32_TO_LE(len))
        d3  == Store(d2, OffTransactionId, GUINT32_TO_LE(transaction_id))
    IN  [data |-> d3, refs |-> 1]

mbim_message_ref(m) == [m EXCEPT !.refs = @ + 1]

\* g_byte_array_unref: the array is disposed when the count drops to 0
mbim_message_unref(m) == IF m.refs = 1 THEN NoMessage ELSE [m EXCEPT !.refs = @ - 1]

mbim_message_get_message_type(m) == MBIM_MESSAGE_GET_MESSAGE_TYPE(m)
mbim_message_get_message_length(m) == MBIM_MESSAGE_GET_MESSAGE_LENGTH(m)
mbim_message_get_transaction_id(m) == MBIM_MESSAGE_GET_TRANSACTION_ID(m)

\* the data_length bytes found at pointer data; bytes past the end of the
\* array the pointer belongs to are whatever the heap holds there (beyond)
ReadMem(data, data_length, beyond) ==
    [i \in 1..data_length |->
        IF i <= Len(data) THEN data[i] ELSE beyond[i - Len(data)]]

mbim_message_new(data, data_length, beyond) ==
    [data |-> ReadMem(data, U32ToNat(data_length), beyond), refs |-> 1]

\* dup that takes the payload length for the message length
DupPayloadLength(m, beyond) ==
    mbim_message_new(m.data,
                     U32Sub(MBIM_MESSAGE_GET_MESSAGE_LENGTH(m), U32(SizeofHeader)),
                     beyond)

mbim_message_dup(m, beyond) ==
    mbim_message_new(m.data, MBIM_MESSAGE_GET_MESSAGE_LENGTH(m), beyond)

\* mbim_message_get_raw: [ok, data, length]
mbim_message_get_raw(m) ==
    IF Len(m.data) = 0
    THEN [ok |-> FALSE, data |-> <<>>, length |-> 0]
    ELSE [ok |-> TRUE, data |-> m.data, length |-> Len(m.data)]

(***************************************************************************)
(* Typed constructors and their accessors.                                 *)
(***************************************************************************)
mbim_message_open_new(transaction_id, max_control_transfer, junk) ==
    LET m == _mbim_message_allocate(MBIM_MESSAGE_TYPE_OPEN, transaction_id,
                                    U32(SizeofOpenMessage), junk)
    IN  [m EXCEPT !.data = Store(@, OffMessage, GUINT32_TO_LE(max_control_transfer))]

mbim_message_open_get_max_control_transfer(m) ==
    IF MBIM_MESSAGE_GET_MESSAGE_TYPE(m) # MBIM_MESSAGE_TYPE_OPEN
    THEN U32(0)
    ELSE Load32(m.data, OffMessage)

mbim_message_close_new(transaction_id, junk) ==
    _mbim_message_allocate(MBIM_MESSAGE_TYPE_CLOSE, transaction_id, U32(0), junk)

mbim_message_error_new(transaction_id, error_status_code, junk) ==
    LET m == _mbim_message_allocate(MBIM_MESSAGE_TYPE_HOST_ERROR, transaction_id,
                                    U32(SizeofOpenMessage), junk)
    IN  [m EXCEPT !.data = Store(@, OffMessage, GUINT32_TO_LE(error_status_code))]

mbim_message_error_get_error_status_code(m) ==
    IF MBIM_MESSAGE_GET_MESSAGE_TYPE(m) \notin
           {MBIM_MESSAGE_TYPE_HOST_ERROR, MBIM_MESSAGE_TYPE_FUNCTION_ERROR}
    THEN MBIM_PROTOCOL_ERROR_INVALID
    ELSE Load32(m.data, OffMessage)

(***************************************************************************)
(* Fragment interface.                                                     *)
(***************************************************************************)
MBIM_MESSAGE_IS_FRAGMENT(m) ==
    MBIM_MESSAGE_GET_MESSAGE_TYPE(m) \in
        {MBIM_MESSAGE_TYPE_COMMAND, MBIM_MESSAGE_TYPE_COMMAND_DONE,
         MBIM_MESSAGE_TYPE_INDICATION}

MBIM_MESSAGE_FRAGMENT_GET_TOTAL(m) == Load32(m.data, OffFragmentTotal)
MBIM_MESSAGE_FRAGMENT_GET_CURRENT(m) == Load32(m.data, OffFragmentCurrent)

\* [length, buffer]: buffer is the byte offset of the payload in m.data
_mbim_message_fragment_get_payload(m) ==
    [length |-> U32Sub(U32Sub(MBIM_MESSAGE_GET_MESSAGE_LENGTH(m), U32(SizeofHeader)),
                       U32(SizeofFragmentHeader)),
     buffer |-> OffFragmentBuffer]

NoError == [code |-> "none", expected |-> <<U32(0), U32(0)>>, got |-> <<U32(0), U32(0)>>]

OutOfSequence(expCurrent, expTotal, gotCurrent, gotTotal) ==
    [code |-> "MBIM_PROTOCOL_ERROR_FRAGMENT_OUT_OF_SEQUENCE",
     expected |-> <<expCurrent, expTotal>>,
     got |-> <<gotCurrent, gotTotal>>]

\* collector that is the fragment itself with one more reference
CollectorStorageShared(fragment, beyond) ==
    [msg |-> mbim_message_ref(fragment), alias |-> TRUE]

\* the object collector_init returns for a first fragment: mbim_message_dup
\* fills an array it allocates, so no storage is shared with the fragment
CollectorStorage(fragment, beyond) ==
    [msg |-> mbim_message_dup(fragment, beyond), alias |-> FALSE]

\* [ok, out, alias, err]: out is the new collector message, NULL on error;
\* alias tells whether out is the very object fragment
_mbim_message_fragment_collector_init(fragment, beyond) ==
    IF MBIM_MESSAGE_FRAGMENT_GET_CURRENT(fragment) # U32(0)
    THEN [ok |-> FALSE, out |-> NoMessage, alias |-> FALSE,
          err |-> OutOfSequence(U32(0),
                                MBIM_MESSAGE_FRAGMENT_GET_TOTAL(fragment),
                                MBIM_MESSAGE_FRAGMENT_GET_CURRENT(fragment),
                                MBIM_MESSAGE_FRAGMENT_GET_TOTAL(fragment))]
    ELSE [ok |-> TRUE, out |-> CollectorStorage(fragment, beyond).msg,
          alias |-> CollectorStorage(fragment, beyond).alias, err |-> NoError]

\* the in-sequence test of collector_add
AddInSequence(m, fragment) ==
    MBIM_MESSAGE_FRAGMENT_GET_CURRENT(m) =
        U32Sub(MBIM_MESSAGE_FRAGMENT_GET_CURRENT(fragment), U32(1))

\* append that leaves the length field as it was
AddAppendKeepLength(m, fragment) ==
    LET p   == _mbim_message_fragment_get_payload(fragment)
        n   == U32ToNat(p.length)
        d1  == IF n # 0
               THEN m.data \o SubSeq(fragment.data, p.buffer + 1, p.buffer + n)
               ELSE m.data
    IN  Store(d1, OffFragmentCurrent,
              SubSeq(fragment.data, OffFragmentCurrent + 1, OffFragmentCurrent + 4))

\* append that copies the whole fragment header, total included
AddAppendCopyTotal(m, fragment) ==
    LET p   == _mbim_message_fragment_get_payload(fragment)
        n   == U32ToNat(p.length)
        d1  == IF n # 0
               THEN Store(m.data \o SubSeq(fragment.data, p.buffer + 1, p.buffer + n),
                          OffLength,
                          GUINT32_TO_LE(U32Add(MBIM_MESSAGE_GET_MESSAGE_LENGTH(m), p.length)))
               ELSE m.data
    IN  Store(d1, OffFragmentTotal,
              SubSeq(fragment.data, OffFragmentTotal + 1, OffFragmentCurrent + 4))

\* append that does not record the index of the fragment
AddAppendKeepCurrent(m, fragment) ==
    LET p   == _mbim_message_fragment_get_payload(fragment)
        n   == U32ToNat(p.length)
    IN  IF n # 0
        THEN Store(m.data \o SubSeq(fragment.data, p.buffer + 1, p.buffer + n),
                   OffLength,
                   GUINT32_TO_LE(U32Add(MBIM_MESSAGE_GET_MESSAGE_LENGTH(m), p.length)))
        ELSE m.data

\* the collector bytes after an accepted fragment
AddAppend(m, fragment) ==
    LET p   == _mbim_message_fragment_get_payload(fragment)
        n   == U32ToNat(p.length)
        d1  == IF n # 0
               THEN Store(m.data \o SubSeq(fragment.data, p.buffer + 1, p.buffer + n),
                          OffLength,
                          GUINT32_TO_LE(U32Add(MBIM_MESSAGE_GET_MESSAGE_LENGTH(m), p.length)))
               ELSE m.data
    IN  Store(d1, OffFragmentCurrent,
              SubSeq(fragment.data, OffFragmentCurrent + 1, OffFragmentCurrent + 4))

\* add that copies the index of the fragment before it tests the sequence
AddCopyCurrentFirst(m, fragment) ==
    IF ~AddInSequence(m, fragment)
    THEN [ok |-> FALSE,
          out |-> [m EXCEPT !.data =
                      Store(@, OffFragmentCurrent,
                            SubSeq(fragment.data, OffFragmentCurrent + 1,
                                   OffFragmentCurrent + 4))],
          err |-> OutOfSequence(U32Add(MBIM_MESSAGE_FRAGMENT_GET_CURRENT(m), U32(1)),
                                MBIM_MESSAGE_FRAGMENT_GET_TOTAL(m),
                                MBIM_MESSAGE_FRAGMENT_GET_CURRENT(fragment),
                                MBIM_MESSAGE_FRAGMENT_GET_TOTAL(fragment))]
    ELSE [ok |-> TRUE, out |-> [m EXCEPT !.data = AddAppend(m, fragment)],
          err |-> NoError]

\* [ok, out, err]: out is self after the call
_mbim_message_fragment_collector_add(m, fragment) ==
    IF ~AddInSequence(m, fragment)
    THEN [ok |-> FALSE, out |-> m,
          err |-> OutOfSequence(U32Add(MBIM_MESSAGE_FRAGMENT_GET_CURRENT(m), U32(1)),
                                MBIM_MESSAGE_FRAGMENT_GET_TOTAL(m),
                                MBIM_MESSAGE_FRAGMENT_GET_CURRENT(fragment),
                                MBIM_MESSAGE_FRAGMENT_GET_TOTAL(fragment))]
    ELSE [ok |-> TRUE, out |-> [m EXCEPT !.data = AddAppend(m, fragment)],
          err |-> NoError]

\* completeness test that compares current with total
IsCompleteOffByOne(m) ==
    MBIM_MESSAGE_FRAGMENT_GET_CURRENT(m) = MBIM_MESSAGE_FRAGMENT_GET_TOTAL(m)

\* the completeness test of collector_complete
IsComplete(m) ==
    MBIM_MESSAGE_FRAGMENT_GET_CURRENT(m) =
        U32Sub(MBIM_MESSAGE_FRAGMENT_GET_TOTAL(m), U32(1))

\* [ok, out]: out is self after the call
_mbim_message_fragment_collector_complete(m) ==
    IF ~IsComplete(m)
    THEN [ok |-> FALSE, out |-> m]
    ELSE [ok |-> TRUE,
          out |-> [m EXCEPT !.data =
                      Store(Store(@, OffFragmentCurrent, <<0, 0, 0, 0>>),
                            OffFragmentTotal, GUINT32_TO_LE(U32(1)))]]


(***************************************************************************)
(* _mbim_message_split_fragments.  A struct fragment_info is the record    *)
(* [header, fragment_header, data_length, data]: the header fields are the *)
(* bytes stored in the struct, data is the byte offset in the source       *)
(* array the pointer info.data refers to.                                  *)
(***************************************************************************)
NoFragments == [ok |-> FALSE, n_fragments |-> 0, infos |-> <<>>]

\* fragment count without the round-up
TotalFragmentsFloor(total_payload_length, fragment_payload_length) ==
    U32ToNat(total_payload_length) \div U32ToNat(fragment_payload_length)

\* number of fragments for a payload of total_payload_length bytes
TotalFragments(total_payload_length, fragment_payload_length) ==
    LET q == U32ToNat(total_payload_length) \div U32ToNat(fragment_payload_length)
    IN  IF U32ToNat(total_payload_length) % U32ToNat(fragment_payload_length) # 0
        THEN q + 1
        ELSE q

\* a struct fragment_info whose slice is never cut to the bytes that remain
FragmentInfoNoClamp(m, i, total_fragments, data, data_length, fragment_header_length, fragment_payload_length) ==
    [data |-> data,
     data_length |-> fragment_payload_length,
     header |->
        [type |-> GUINT32_TO_LE(MBIM_MESSAGE_GET_MESSAGE_TYPE(m)),
         length |-> GUINT32_TO_LE(U32Add(fragment_header_length, fragment_payload_length)),
         transaction_id |-> GUINT32_TO_LE(MBIM_MESSAGE_GET_TRANSACTION_ID(m))],
     fragment_header |->
        [total |-> GUINT32_TO_LE(U32(total_fragments)),
         current |-> GUINT32_TO_LE(U32(i))]]

\* one struct fragment_info, as the loop body fills it
FragmentInfo(m, i, total_fragments, data, data_length, fragment_header_length, fragment_payload_length) ==
    LET len == IF ~U32Le(data_length, fragment_payload_length)
               THEN fragment_payload_length
               ELSE data_length
    IN  [data |-> data,
         data_length |-> len,
         header |->
            [type |-> GUINT32_TO_LE(MBIM_MESSAGE_GET_MESSAGE_TYPE(m)),
             length |-> GUINT32_TO_LE(U32Add(fragment_header_length, len)),
             transaction_id |-> GUINT32_TO_LE(MBIM_MESSAGE_GET_TRANSACTION_ID(m))],
         fragment_header |->
            [total |-> GUINT32_TO_LE(U32(total_fragments)),
             current |-> GUINT32_TO_LE(U32(i))]]

\* loop that never advances the data walker
RECURSIVE SplitLoopFixedData(_, _, _, _, _, _, _, _)
SplitLoopFixedData(m, i, total_fragments, data, data_length, fragment_header_length, fragment_payload_length, array) ==
    IF ~(i < total_fragments)
    THEN array
    ELSE LET info == FragmentInfo(m, i, total_fragments, data, data_length,
                                  fragment_header_length, fragment_payload_length)
         IN  SplitLoopFixedData(m, i + 1, total_fragments,
                                data,
                                U32Sub(data_length, info.data_length),
                                fragment_header_length, fragment_payload_length,
                                Append(array, info))

RECURSIVE SplitLoop(_, _, _, _, _, _, _, _)
SplitLoop(m, i, total_fragments, data, data_length, fragment_header_length, fragment_payload_length, array) ==
    IF ~(i < total_fragments)
    THEN array
    ELSE LET info == FragmentInfo(m, i, total_fragments, data, data_length,
                                  fragment_header_length, fragment_payload_length)
         IN  SplitLoop(m, i + 1, total_fragments,
                       data + U32ToNat(info.data_length),
                       U32Sub(data_length, info.data_length),
                       fragment_header_length, fragment_payload_length,
                       Append(array, info))

_mbim_message_split_fragments(m, max_fragment_size) ==
    LET total_message_length    == mbim_message_get_message_length(m)
        fragment_header_length  == U32(SizeofHeader + SizeofFragmentHeader)
        total_payload_length    == U32Sub(total_message_length, fragment_header_length)
        fragment_payload_length == U32Sub(max_fragment_size, fragment_header_length)
        total_fragments         == TotalFragments(total_payload_length,
                                                  fragment_payload_length)
    IN  IF U32Le(total_message_length, max_fragment_size)
        THEN NoFragments
        ELSE [ok |-> TRUE,
              n_fragments |-> total_fragments,
              infos |-> SplitLoop(m, 0, total_fragments, OffFragmentBuffer,
                                  total_payload_length, fragment_header_length,
                                  fragment_payload_length, <<>>)]

\* the bytes the transport writes for one descriptor: both headers, then the
\* data_length bytes at info.data
FragmentBytes(m, info) ==
    info.header.type \o info.header.length \o info.header.transaction_id
      \o info.fragment_header.total \o info.fragment_header.current
      \o SubSeq(m.data, info.data + 1, info.data + U32ToNat(info.data_length))

(***************************************************************************)
(* Inputs.  Information-buffer bytes are tagged with the fragment index    *)
(* and the position they come from, so that a byte of a reassembled or     *)
(* split message tells where it was taken from.                            *)
(***************************************************************************)
JunkBytes == {0, 205}
TransactionIds == {U32(0), U32(7), <<258, 772>>}
ControlTransfers == {U32(4096), <<65535, 65534>>}
ProtocolErrors == {U32(2), U32(4)}
FragmentTypes == {MBIM_MESSAGE_TYPE_COMMAND, MBIM_MESSAGE_TYPE_COMMAND_DONE}

Payload(tag, n) == [i \in 1..n |-> (16 * (tag + 1) + i) % 256]

\* the bytes of a message of a fragmented type whose length field is length
FragmentedSlice(type, length, tid, total, current, payload) ==
    GUINT32_TO_LE(type) \o GUINT32_TO_LE(length) \o GUINT32_TO_LE(tid)
      \o GUINT32_TO_LE(total) \o GUINT32_TO_LE(current) \o payload

\* well-formed fragments as read from the transport: the length field is
\* the size of the fragment; each carries no payload or MaxPayload bytes
InputFragments ==
    {[data |-> FragmentedSlice(MBIM_MESSAGE_TYPE_COMMAND_DONE,
                               U32(OffFragmentBuffer + n),
                               U32(7), U32(total), U32(current), Payload(current, n)),
      refs |-> 1] :
        total \in 0..MaxIndex, current \in 0..MaxIndex, n \in {0, MaxPayload}}

\* byte slices handed to mbim_message_new: whole messages of a fragmented
\* type, with a length field that may disagree with the slice by MaxSlack
InputSlices ==
    {FragmentedSlice(type, U32(OffFragmentBuffer + n + d),
                     <<258, 772>>, U32(1), U32(0), Payload(9, n)) :
        type \in FragmentTypes, d \in (0 - MaxSlack)..MaxSlack,
        n \in 0..MaxSplitPayload}
    \cup {FragmentedSlice(MBIM_MESSAGE_TYPE_COMMAND, U32(OffFragmentBuffer + 200),
                          U32(7), U32(1), U32(0), Payload(9, 200))}

MaxFragmentSizes == {U32(OffFragmentBuffer + f) : f \in 1..2} \cup {U32(64)}

\* messages handed to the split / reassemble pipeline: well-formed messages
\* of a fragmented type, whatever their own fragment header says
StreamMessages ==
    {[data |-> FragmentedSlice(type, U32(OffFragmentBuffer + n), <<258, 772>>,
                               U32(th[1]), U32(th[2]), Payload(9, n)),
      refs |-> 1] :
        type \in FragmentTypes \cup {MBIM_MESSAGE_TYPE_INDICATION},
        th \in {<<1, 0>>, <<3, 2>>},
        n \in 0..MaxSplitPayload}
    \cup {[data |-> FragmentedSlice(MBIM_MESSAGE_TYPE_COMMAND,
                                    U32(OffFragmentBuffer + 200),
                                    U32(7), U32(1), U32(0), Payload(9, 200)),
           refs |-> 1]}

\* the k-th fragment (index k - 1) of a stream of n fragments, with the
\* payload sizes in sizes
StreamFragment(n, k, sizes) ==
    [data |-> FragmentedSlice(MBIM_MESSAGE_TYPE_COMMAND,
                              U32(OffFragmentBuffer + sizes[k]),
                              U32(7), U32(n), U32(k - 1), Payload(k - 1, sizes[k])),
     refs |-> 1]

\* streams of n fragments that all carry total = n and the indices 0..n-1,
\* each fragment without payload or with MaxStreamPayload bytes, and the
\* stream of two fragments of 100 and 50 payload bytes
InputStreams ==
    {[k \in 1..Len(sizes) |-> StreamFragment(Len(sizes), k, sizes)] :
        sizes \in UNION {[1..n -> {0, MaxStreamPayload}] : n \in 1..MaxStream}
                   \cup {<<100, 50>>}}

(***************************************************************************)
(* State machine.  One MbimMessage handle (self) is created, used and      *)
(* released; copy holds the result of mbim_message_dup, descs the result   *)
(* of the last split of self (its descriptors point into self, so self is  *)
(* neither changed nor released while they are kept).                      *)
(***************************************************************************)
\* the last call that created or changed self: its name, arguments, return
\* value and GError
NoCall == [op |-> "none", args |-> <<>>, ok |-> TRUE, err |-> NoError]
Call(op, args, ok, err) == [op |-> op, args |-> args, ok |-> ok, err |-> err]

\* splitting m at max_fragment_size s stays within MaxFragments descriptors
SplitBounded(m, s) ==
    U32ToNat(MBIM_MESSAGE_GET_MESSAGE_LENGTH(m)) - OffFragmentBuffer
        <= MaxFragments * (U32ToNat(s) - OffFragmentBuffer)

NoCopy == [msg |-> NoMessage, gen |-> 0, of |-> <<>>]
NoSplit == [called |-> FALSE, max_fragment_size |-> U32(0), ret |-> NoFragments]

\* first: the caller's first fragment now (msg), its bytes as received, and
\* whether the collector is that same object
NoFirst == [msg |-> NoMessage, received |-> <<>>, shared |-> FALSE]

\* the first fragment after self became m: an object shared with the
\* collector changes with it
Held(m) == IF first.shared THEN [first EXCEPT !.msg = m] ELSE first

\* no handle other than self is held
Idle == copy.gen = 0 /\ ~descs.called

Init ==
    /\ self = NoMessage
    /\ origin = "none"
    /\ frag = NoMessage
    /\ result = NoCall
    /\ accepted = <<>>
    /\ copy = NoCopy
    /\ descs = NoSplit
    /\ src = NoMessage
    /\ fed = 0
    /\ first = NoFirst
    /\ stream = <<>>

Created(m, how, op, args) ==
    /\ self.refs = 0
    /\ self' = m
    /\ origin' = how
    /\ frag' = NoMessage
    /\ result' = Call(op, args, TRUE, NoError)
    /\ first' = NoFirst
    /\ UNCHANGED <<accepted, copy, descs, src, fed, stream>>

OpenNew ==
    \E t \in TransactionIds, v \in ControlTransfers, j \in JunkBytes :
        Created(mbim_message_open_new(t, v, j), "ctor", "open_new", <<t, v>>)

CloseNew ==
    \E t \in TransactionIds, j \in JunkBytes :
        Created(mbim_message_close_new(t, j), "ctor", "close_new", <<t>>)

ErrorNew ==
    \E t \in TransactionIds, e \in ProtocolErrors, j \in JunkBytes :
        Created(mbim_message_error_new(t, e, j), "ctor", "error_new", <<t, e>>)

New ==
    \E slice \in InputSlices :
        Created(mbim_message_new(slice, U32(Len(slice)), <<>>), "bytes", "new", <<>>)

Ref ==
    /\ self.refs >= 1
    /\ self.refs < MaxRefs
    /\ Idle
    /\ self' = mbim_message_ref(self)
    /\ first' = Held(self')
    /\ UNCHANGED <<origin, frag, result, accepted, copy, descs, src, fed, stream>>

Unref ==
    /\ self.refs >= 1
    /\ Idle
    /\ self' = mbim_message_unref(self)
    /\ origin' = IF self'.refs = 0 THEN "none" ELSE origin
    /\ accepted' = IF self'.refs = 0 THEN <<>> ELSE accepted
    /\ frag' = IF self'.refs = 0 THEN NoMessage ELSE frag
    /\ result' = IF self'.refs = 0 THEN NoCall ELSE result
    /\ first' = IF self'.refs = 0 THEN NoFirst ELSE Held(self')
    /\ UNCHANGED <<copy, descs, src, fed, stream>>

\* heap contents a read past the end of m's array may return
Beyond(m) ==
    LET n == U32ToNat(MBIM_MESSAGE_GET_MESSAGE_LENGTH(m))
    IN  IF n <= Len(m.data) THEN {<<>>} ELSE [1..(n - Len(m.data)) -> JunkBytes]

Dup ==
    /\ self.refs = 1
    /\ Idle
    /\ \E beyond \in Beyond(self) :
          copy' = [msg |-> mbim_message_dup(self, beyond), gen |-> 1, of |-> self.data]
    /\ UNCHANGED <<self, origin, frag, result, accepted, descs, src, fed, first, stream>>

DupCopy ==
    /\ copy.gen = 1
    /\ \E beyond \in Beyond(copy.msg) :
          copy' = [msg |-> mbim_message_dup(copy.msg, beyond), gen |-> 2, of |-> copy.of]
    /\ UNCHANGED <<self, origin, frag, result, accepted, descs, src, fed, first, stream>>

UnrefCopy ==
    /\ copy.gen >= 1
    /\ copy' = NoCopy
    /\ UNCHANGED <<self, origin, frag, result, accepted, descs, src, fed, first, stream>>

CollectorInit ==
    /\ self.refs = 0
    /\ \E f \in InputFragments :
          LET r == _mbim_message_fragment_collector_init(f, <<>>)
          IN  /\ frag' = f
              /\ self' = r.out
              /\ origin' = IF r.ok THEN "collector" ELSE "none"
              /\ accepted' = IF r.ok
                             THEN <<MBIM_MESSAGE_FRAGMENT_GET_CURRENT(f)>>
                             ELSE <<>>
              /\ result' = Call("init", <<>>, r.ok, r.err)
              /\ first' = [msg |-> IF r.alias THEN r.out ELSE f,
                           received |-> f.data, shared |-> r.alias]
    /\ UNCHANGED <<copy, descs, src, fed, stream>>

\* the last call was an add that failed
Rejected == result.op = "add" /\ ~result.ok

\* After a rejected fragment the caller offers the expected fragment or
\* releases the collector; a second rejection in a row would only repeat a
\* state reached without the first.
CollectorAdd ==
    /\ origin = "collector"
    /\ Idle
    /\ Len(self.data) - OffFragmentBuffer < MaxCollPayload
    /\ \E f \in InputFragments :
          LET r == _mbim_message_fragment_collector_add(self, f)
          IN  /\ Rejected => r.ok
              /\ frag' = f
              /\ self' = r.out
              /\ accepted' = IF r.ok
                             THEN Append(accepted, MBIM_MESSAGE_FRAGMENT_GET_CURRENT(f))
                             ELSE accepted
              /\ result' = Call("add", <<>>, r.ok, r.err)
    /\ first' = Held(self')
    /\ UNCHANGED <<origin, copy, descs, src, fed, stream>>

CollectorComplete ==
    /\ origin = "collector"
    /\ Idle
    /\ LET r == _mbim_message_fragment_collector_complete(self)
       IN  /\ self' = r.out
           /\ result' = Call("complete", <<>>, r.ok, NoError)
    /\ first' = Held(self')
    /\ UNCHANGED <<origin, frag, accepted, copy, descs, src, fed, stream>>

Split ==
    /\ origin \in {"ctor", "bytes"}
    /\ Idle
    /\ \E s \in MaxFragmentSizes :
          /\ SplitBounded(self, s)
          /\ descs' = [called |-> TRUE, max_fragment_size |-> s,
                       ret |-> _mbim_message_split_fragments(self, s)]
    /\ UNCHANGED <<self, origin, frag, result, accepted, copy, src, fed, first, stream>>

FreeFragments ==
    /\ descs.called
    /\ descs' = NoSplit
    /\ UNCHANGED <<self, origin, frag, result, accepted, copy, src, fed, first, stream>>

Next ==
    \/ OpenNew
    \/ CloseNew
    \/ ErrorNew
    \/ New
    \/ Ref
    \/ Unref
    \/ Dup
    \/ DupCopy
    \/ UnrefCopy
    \/ CollectorInit
    \/ CollectorAdd
    \/ CollectorComplete
    \/ Split
    \/ FreeFragments

Spec == Init /\ [][Next]_vars


(***************************************************************************)
(* The split / reassemble pipeline: src is split, every descriptor is      *)
(* written to the transport and read back as a fragment, and the fragments *)
(* are fed in order to the collector, which is polled with complete.       *)
(***************************************************************************)
InitStream ==
    /\ src \in StreamMessages
    /\ self = NoMessage
    /\ origin = "none"
    /\ frag = NoMessage
    /\ result = NoCall
    /\ accepted = <<>>
    /\ copy = NoCopy
    /\ descs = NoSplit
    /\ fed = 0
    /\ first = NoFirst
    /\ stream = <<>>

\* the fragment read from the transport for descriptor number k
Received(k) ==
    LET bytes == FragmentBytes(src, descs.ret.infos[k])
    IN  mbim_message_new(bytes, U32(Len(bytes)), <<>>)

StreamSplit ==
    /\ ~descs.called
    /\ \E s \in MaxFragmentSizes :
          /\ SplitBounded(src, s)
          /\ descs' = [called |-> TRUE, max_fragment_size |-> s,
                       ret |-> _mbim_message_split_fragments(src, s)]
    /\ UNCHANGED <<self, origin, frag, result, accepted, copy, src, fed, first, stream>>

StreamInit ==
    /\ descs.ret.ok
    /\ fed = 0
    /\ LET r == _mbim_message_fragment_collector_init(Received(1), <<>>)
       IN  /\ frag' = Received(1)
           /\ self' = r.out
           /\ origin' = IF r.ok THEN "collector" ELSE "none"
           /\ accepted' = IF r.ok
                          THEN <<MBIM_MESSAGE_FRAGMENT_GET_CURRENT(frag')>>
                          ELSE <<>>
           /\ result' = Call("init", <<>>, r.ok, r.err)
           /\ first' = [msg |-> IF r.alias THEN r.out ELSE Received(1),
                        received |-> Received(1).data, shared |-> r.alias]
    /\ fed' = 1
    /\ UNCHANGED <<copy, descs, src, stream>>

StreamAdd ==
    /\ origin = "collector"
    /\ fed >= 1
    /\ fed < descs.ret.n_fragments
    /\ LET r == _mbim_message_fragment_collector_add(self, Received(fed + 1))
       IN  /\ frag' = Received(fed + 1)
           /\ self' = r.out
           /\ accepted' = IF r.ok
                          THEN Append(accepted, MBIM_MESSAGE_FRAGMENT_GET_CURRENT(frag'))
                          ELSE accepted
           /\ result' = Call("add", <<>>, r.ok, r.err)
    /\ first' = Held(self')
    /\ fed' = fed + 1
    /\ UNCHANGED <<origin, copy, descs, src, stream>>

StreamComplete ==
    /\ origin = "collector"
    /\ LET r == _mbim_message_fragment_collector_complete(self)
       IN  /\ self' = r.out
           /\ result' = Call("complete", <<>>, r.ok, NoError)
    /\ first' = Held(self')
    /\ UNCHANGED <<origin, frag, accepted, copy, descs, src, fed, stream>>

NextStream ==
    \/ StreamSplit
    \/ StreamInit
    \/ StreamAdd
    \/ StreamComplete

SpecStream == InitStream /\ [][NextStream]_vars

(***************************************************************************)
(* The receive loop: the fragments of stream are fed to the collector in   *)
(* the order they arrive, and collector_complete is polled after each.     *)
(***************************************************************************)
InitPoll ==
    /\ stream \in InputStreams
    /\ self = NoMessage
    /\ origin = "none"
    /\ frag = NoMessage
    /\ result = NoCall
    /\ accepted = <<>>
    /\ copy = NoCopy
    /\ descs = NoSplit
    /\ src = NoMessage
    /\ fed = 0
    /\ first = NoFirst

PollInit ==
    /\ fed = 0
    /\ LET r == _mbim_message_fragment_collector_init(stream[1], <<>>)
       IN  /\ frag' = stream[1]
           /\ self' = r.out
           /\ origin' = IF r.ok THEN "collector" ELSE "none"
           /\ accepted' = IF r.ok
                          THEN <<MBIM_MESSAGE_FRAGMENT_GET_CURRENT(frag')>>
                          ELSE <<>>
           /\ result' = Call("init", <<>>, r.ok, r.err)
           /\ first' = [msg |-> IF r.alias THEN r.out ELSE stream[1],
                        received |-> stream[1].data, shared |-> r.alias]
    /\ fed' = 1
    /\ UNCHANGED <<copy, descs, src, stream>>

PollAdd ==
    /\ origin = "collector"
    /\ result.op = "complete"
    /\ fed < Len(stream)
    /\ LET r == _mbim_message_fragment_collector_add(self, stream[fed + 1])
       IN  /\ frag' = stream[fed + 1]
           /\ self' = r.out
           /\ accepted' = IF r.ok
                          THEN Append(accepted, MBIM_MESSAGE_FRAGMENT_GET_CURRENT(frag'))
                          ELSE accepted
           /\ result' = Call("add", <<>>, r.ok, r.err)
    /\ first' = Held(self')
    /\ fed' = fed + 1
    /\ UNCHANGED <<origin, copy, descs, src, stream>>

PollComplete ==
    /\ origin = "collector"
    /\ result.op \in {"init", "add"}
    /\ LET r == _mbim_message_fragment_collector_complete(self)
       IN  /\ self' = r.out
           /\ result' = Call("complete", <<>>, r.ok, NoError)
    /\ first' = Held(self')
    /\ UNCHANGED <<origin, frag, accepted, copy, descs, src, fed, stream>>

NextPoll ==
    \/ PollInit
    \/ PollAdd
    \/ PollComplete

\* the loop does not stop while a fragment or a poll is outstanding
SpecPoll == InitPoll /\ [][NextPoll]_vars /\ WF_vars(NextPoll)

(***************************************************************************)
(* Properties.                                                             *)
(***************************************************************************)
\* the four bytes of a guint32 in little-endian order
LittleEndian(u) ==
    <<u[2] % 256, (u[2] \div 256) % 256, u[1] % 256, (u[1] \div 256) % 256>>

U32Lt(a, b) == U32Le(a, b) /\ a # b

FieldType(d) == SubSeq(d, 1, 4)
FieldLength(d) == SubSeq(d, 5, 8)
FieldTransactionId(d) == SubSeq(d, 9, 12)
FieldTotal(d) == SubSeq(d, 13, 16)
FieldCurrent(d) == SubSeq(d, 17, 20)
FieldPayload(d) == SubSeq(d, 21, Len(d))

\* C1: after a typed constructor, collector init, an accepted or rejected
\* collector add and collector complete (fragments whose length field is
\* their size), the header length field equals the byte length of the
\* backing buffer: message_length(m) = len(raw(m)).
C1_LengthInvariant ==
    (origin \in {"ctor", "collector"} /\ self.refs >= 1) =>
        /\ mbim_message_get_raw(self).ok
        /\ mbim_message_get_message_length(self) = U32(mbim_message_get_raw(self).length)

\* a collector that took payload from two fragments and was completed
C1_Witness ==
    /\ origin = "collector"
    /\ result.op = "complete"
    /\ result.ok
    /\ Len(accepted) >= 2
    /\ Len(self.data) = OffFragmentBuffer + 2

\* C3: init fails with FRAGMENT_OUT_OF_SEQUENCE exactly for a first fragment
\* whose current is not 0; add fails with FRAGMENT_OUT_OF_SEQUENCE for a
\* fragment whose current is not the collector's current + 1, citing
\* (collector current + 1 / collector total) and (fragment current / fragment
\* total); so the accepted indices are always 0, 1, 2, ... without gaps or
\* repeats.
C3_StrictSequencing ==
    /\ result.op = "init" =>
          /\ result.ok <=> FieldCurrent(frag.data) = <<0, 0, 0, 0>>
          /\ ~result.ok =>
                /\ self = NoMessage
                /\ result.err.code = "MBIM_PROTOCOL_ERROR_FRAGMENT_OUT_OF_SEQUENCE"
                /\ result.err.expected[1] = U32(0)
                /\ LittleEndian(result.err.got[1]) = FieldCurrent(frag.data)
                /\ LittleEndian(result.err.got[2]) = FieldTotal(frag.data)
    /\ (result.op = "add" /\ ~result.ok) =>
          /\ FieldCurrent(frag.data)
                # LittleEndian(U32Add(MBIM_MESSAGE_FRAGMENT_GET_CURRENT(self), U32(1)))
          /\ result.err.code = "MBIM_PROTOCOL_ERROR_FRAGMENT_OUT_OF_SEQUENCE"
          /\ result.err.expected[1] = U32Add(MBIM_MESSAGE_FRAGMENT_GET_CURRENT(self), U32(1))
          /\ LittleEndian(result.err.expected[2]) = FieldTotal(self.data)
          /\ LittleEndian(result.err.got[1]) = FieldCurrent(frag.data)
          /\ LittleEndian(result.err.got[2]) = FieldTotal(frag.data)
    /\ (result.op = "add" /\ result.ok) =>
          LittleEndian(accepted[Len(accepted)]) = FieldCurrent(frag.data)
    /\ \A i \in 1..Len(accepted) : accepted[i] = U32(i - 1)

\* the rejection rule of C3 alone: every call of add is accepted exactly
\* when the fragment's current is the collector's current + 1 (modulo 2^32)
C3_RejectionRule ==
    [][(result'.op = "add" /\ CollectorAdd) =>
         (result'.ok <=>
            MBIM_MESSAGE_FRAGMENT_GET_CURRENT(frag') =
               U32Add(MBIM_MESSAGE_FRAGMENT_GET_CURRENT(self), U32(1)))]_vars

\* C5: a message whose reference count is 2 or more is never modified; add
\* and complete change the buffer only while the message has one owner.
C5_UniqueOwnership ==
    [][(self.refs >= 2 /\ self'.refs >= 1) => self'.data = self.data]_vars

\* C6: after a successful init and any adds and completes, the collector's
\* fragment header has total >= 1 and current < total.
C6_BoundedReassembly ==
    (origin = "collector") =>
        /\ U32Le(U32(1), MBIM_MESSAGE_FRAGMENT_GET_TOTAL(self))
        /\ U32Lt(MBIM_MESSAGE_FRAGMENT_GET_CURRENT(self),
                 MBIM_MESSAGE_FRAGMENT_GET_TOTAL(self))


\* C7: for a message made by a typed constructor, by mbim_message_new from a
\* slice of at least 12 bytes or by the collector, dup(m) is a copy of
\* exactly message_length(m) bytes of m, and raw(dup(dup(m))) equals raw(m).
C7_DupIdempotence ==
    /\ copy.gen >= 1 =>
          /\ copy.msg.refs = 1
          /\ U32(Len(copy.msg.data)) = Load32(copy.of, OffLength)
          /\ Len(copy.msg.data) <= Len(copy.of)
          /\ copy.msg.data = SubSeq(copy.of, 1, Len(copy.msg.data))
    /\ copy.gen = 2 =>
          /\ mbim_message_get_raw(copy.msg).length = Len(copy.of)
          /\ mbim_message_get_raw(copy.msg).data = copy.of

\* the message dup was applied to has a length field equal to its size
WellFormed(d) == Len(d) >= SizeofHeader /\ Load32(d, OffLength) = U32(Len(d))

\* C7 amended: the same, for every message whose header length equals the
\* byte length of its buffer.
C7_DupIdempotenceWellFormed ==
    WellFormed(copy.of) => C7_DupIdempotence

\* the second dup of a reassembled message
C7_Witness ==
    /\ copy.gen = 2
    /\ origin = "collector"
    /\ WellFormed(copy.of)
    /\ Len(copy.of) > OffFragmentBuffer
    /\ copy.msg.data = self.data

\* C8: open_new(t, v) is 16 bytes: type OPEN, length 16, transaction id t and
\* max_control_transfer v; close_new(t) is 12 bytes: type CLOSE, length 12,
\* transaction id t; error_new(t, e) is 16 bytes: type HOST_ERROR, length 16,
\* transaction id t and error status code e; all fields little-endian at
\* offsets 0, 4, 8 and 12.
C8_TypedConstructors ==
    /\ (origin = "ctor" /\ result.op = "open_new") =>
          /\ Len(self.data) = 16
          /\ SubSeq(self.data, 1, 4) = <<1, 0, 0, 0>>
          /\ SubSeq(self.data, 5, 8) = <<16, 0, 0, 0>>
          /\ SubSeq(self.data, 9, 12) = LittleEndian(result.args[1])
          /\ SubSeq(self.data, 13, 16) = LittleEndian(result.args[2])
          /\ mbim_message_get_message_type(self) = MBIM_MESSAGE_TYPE_OPEN
          /\ mbim_message_get_message_length(self) = U32(16)
          /\ mbim_message_get_transaction_id(self) = result.args[1]
          /\ mbim_message_open_get_max_control_transfer(self) = result.args[2]
    /\ (origin = "ctor" /\ result.op = "close_new") =>
          /\ Len(self.data) = 12
          /\ SubSeq(self.data, 1, 4) = <<2, 0, 0, 0>>
          /\ SubSeq(self.data, 5, 8) = <<12, 0, 0, 0>>
          /\ SubSeq(self.data, 9, 12) = LittleEndian(result.args[1])
          /\ mbim_message_get_message_type(self) = MBIM_MESSAGE_TYPE_CLOSE
          /\ mbim_message_get_message_length(self) = U32(12)
          /\ mbim_message_get_transaction_id(self) = result.args[1]
    /\ (origin = "ctor" /\ result.op = "error_new") =>
          /\ Len(self.data) = 16
          /\ SubSeq(self.data, 1, 4) = <<4, 0, 0, 0>>
          /\ SubSeq(self.data, 5, 8) = <<16, 0, 0, 0>>
          /\ SubSeq(self.data, 9, 12) = LittleEndian(result.args[1])
          /\ SubSeq(self.data, 13, 16) = LittleEndian(result.args[2])
          /\ mbim_message_get_message_type(self) = MBIM_MESSAGE_TYPE_HOST_ERROR
          /\ mbim_message_get_message_length(self) = U32(16)
          /\ mbim_message_get_transaction_id(self) = result.args[1]
          /\ mbim_message_error_get_error_status_code(self) = result.args[2]

\* open_new(tid = 7, max_control_transfer = 4096) over a junk-filled buffer
C8_Witness ==
    /\ origin = "ctor"
    /\ result.op = "open_new"
    /\ result.args = <<U32(7), U32(4096)>>
    /\ self.data = <<1, 0, 0, 0, 16, 0, 0, 0, 7, 0, 0, 0, 0, 16, 0, 0>>

\* C9: complete returns true exactly when current + 1 = total; then it sets
\* current = 0 and total = 1 and changes no other byte; when it returns false
\* the message is unchanged.
C9_CompleteNormalizes ==
    [][(result'.op = "complete" /\ CollectorComplete) =>
         LET done == U32Add(MBIM_MESSAGE_FRAGMENT_GET_CURRENT(self), U32(1))
                        = MBIM_MESSAGE_FRAGMENT_GET_TOTAL(self)
         IN  /\ result'.ok <=> done
             /\ self'.refs = self.refs
             /\ Len(self'.data) = Len(self.data)
             /\ done =>
                   /\ FieldTotal(self'.data) = <<1, 0, 0, 0>>
                   /\ FieldCurrent(self'.data) = <<0, 0, 0, 0>>
                   /\ \A i \in 1..Len(self.data) :
                         i \notin 13..20 => self'.data[i] = self.data[i]
             /\ ~done => self'.data = self.data]_vars

\* a completed collector holding payload of a later fragment, normalized
C9_Witness ==
    /\ origin = "collector"
    /\ result.op = "complete"
    /\ result.ok
    /\ Len(accepted) = 2
    /\ accepted[2] = U32(1)
    /\ Len(self.data) > OffFragmentBuffer
    /\ FieldTotal(self.data) = <<1, 0, 0, 0>>
    /\ FieldCurrent(self.data) = <<0, 0, 0, 0>>

\* C10: an accepted add leaves the collector's previous bytes followed by
\* the fragment's payload (its bytes from offset 20 up to its header length),
\* the header length grown by the number of appended bytes, current equal to
\* the fragment's current, and type, transaction id, total and the payload
\* accumulated before unchanged.  (A step that changes the buffer and leaves
\* result at a successful add is a step of CollectorAdd: complete sets
\* result.op, every other action leaves the buffer alone.)
C10_AcceptedAddEffect ==
    [][(result'.op = "add" /\ result'.ok /\ self'.data # self.data) =>
         LET f == frag'.data
             n == U32ToNat(Load32(f, OffLength)) - OffFragmentBuffer
         IN  /\ Len(self'.data) = Len(self.data) + n
             /\ SubSeq(self'.data, Len(self.data) + 1, Len(self'.data))
                   = SubSeq(f, OffFragmentBuffer + 1, OffFragmentBuffer + n)
             /\ FieldLength(self'.data)
                   = LittleEndian(U32Add(Load32(self.data, OffLength), U32(n)))
             /\ FieldCurrent(self'.data) = FieldCurrent(f)
             /\ FieldType(self'.data) = FieldType(self.data)
             /\ FieldTransactionId(self'.data) = FieldTransactionId(self.data)
             /\ FieldTotal(self'.data) = FieldTotal(self.data)
             /\ SubSeq(self'.data, 21, Len(self.data)) = FieldPayload(self.data)
             /\ self'.refs = self.refs]_vars

\* an accepted fragment with payload and another total, added to a collector
\* that already held payload
C10_Witness ==
    /\ origin = "collector"
    /\ result.op = "add"
    /\ result.ok
    /\ Len(frag.data) > OffFragmentBuffer
    /\ Len(self.data) > Len(frag.data)
    /\ FieldTotal(frag.data) # FieldTotal(self.data)


\* the concatenation of the payload slices of descriptors k..n of src
RECURSIVE JoinSlices(_, _)
JoinSlices(infos, k) ==
    IF k > Len(infos)
    THEN <<>>
    ELSE SubSeq(src.data, infos[k].data + 1,
                infos[k].data + U32ToNat(infos[k].data_length))
            \o JoinSlices(infos, k + 1)

C4_SplitReference ==
    descs.called =>
        LET L == U32ToNat(Load32(self.data, OffLength))
            S == U32ToNat(descs.max_fragment_size)
            H == 20
            P == L - H
            F == S - H
            N == (P + F - 1) \div F
        IN  /\ ~descs.ret.ok <=> L <= S
            /\ L > S =>
                  /\ descs.ret.n_fragments = N
                  /\ Len(descs.ret.infos) = N
                  /\ \A i \in 0..(N - 1) :
                        LET info == descs.ret.infos[i + 1]
                            len  == IF F < P - i * F THEN F ELSE P - i * F
                        IN  /\ info.fragment_header.current = LittleEndian(U32(i))
                            /\ info.fragment_header.total = LittleEndian(U32(N))
                            /\ info.header.type = FieldType(self.data)
                            /\ info.header.transaction_id = FieldTransactionId(self.data)
                            /\ info.data = H + i * F
                            /\ info.data_length = U32(len)
                            /\ info.header.length = LittleEndian(U32(H + len))

\* 200 payload bytes split with S = 64: five slices of 44, 44, 44, 44, 24
C4_Witness ==
    /\ descs.called
    /\ descs.max_fragment_size = U32(64)
    /\ Len(self.data) = 220
    /\ descs.ret.n_fragments = 5
    /\ [k \in 1..5 |-> U32ToNat(descs.ret.infos[k].data_length)] = <<44, 44, 44, 44, 24>>
    /\ descs.ret.infos[5].header.length = <<44, 0, 0, 0>>

\* the message_length of the bytes d, for lengths below 2^24
LengthOf(d) == d[5] + 256 * d[6] + 65536 * d[7]

\* C11: the collector owns a deep copy.  A successful collector_init returns
\* a new message (not the fragment object) whose bytes are the first
\* fragment's message_length bytes, and at every later time (after any add
\* or complete on the collector) the first fragment and the fragment last
\* passed to add hold the bytes they were received with.
C11_DeepCopy ==
    /\ first.msg.data = first.received
    /\ origin = "collector" =>
          /\ ~first.shared
          /\ first.msg.refs = 1
          /\ frag \in InputFragments
          /\ result.op = "init" =>
                self.data = SubSeq(first.received, 1, LengthOf(first.received))

\* a collector that took one more fragment with payload after the first and
\* was completed
C11_Witness ==
    /\ origin = "collector"
    /\ result.op = "complete"
    /\ result.ok
    /\ Len(accepted) = 2
    /\ Len(first.received) > OffFragmentBuffer
    /\ Len(self.data) > Len(first.received)
    /\ self.data # first.msg.data

\* the information-buffer bytes of the first k fragments of st, in order
RECURSIVE StreamPayload(_, _)
StreamPayload(st, k) ==
    IF k = 0 THEN <<>> ELSE StreamPayload(st, k - 1) \o FieldPayload(st[k].data)

\* the single message the fragments of st stand for
Reassembled(st) ==
    FieldType(st[1].data)
      \o LittleEndian(U32(OffFragmentBuffer + Len(StreamPayload(st, Len(st)))))
      \o FieldTransactionId(st[1].data)
      \o LittleEndian(U32(1)) \o LittleEndian(U32(0))
      \o StreamPayload(st, Len(st))

\* Empty: no collector; Complete: the last poll returned TRUE; else Growing
Phase ==
    IF self.refs = 0 THEN "Empty"
    ELSE IF result.op = "complete" /\ result.ok THEN "Complete"
    ELSE "Growing"

\* C12: completion exactly when all fragments have arrived.  For a stream of
\* N >= 1 fragments carrying total = N and the indices 0..N-1, fed in order
\* with complete polled after every step: every fragment is accepted, the
\* poll after the k-th fragment returns TRUE exactly when k = N (so right
\* after init when N = 1), the collector moves Empty -> Growing -> Complete
\* and does reach Complete, and it then holds the reassembled message with
\* total = 1, current = 0 (170 bytes for payloads of 100 and 50 bytes).
C12_CompleteWhenAllArrived ==
    /\ [](result.op \in {"init", "add"} => result.ok)
    /\ [][(result'.op = "complete" /\ result.op # "complete") =>
            (result'.ok <=> fed = Len(stream))]_vars
    /\ [][(Phase = "Empty" /\ Phase' = "Growing")
            \/ (Phase = "Growing" /\ Phase' \in {"Growing", "Complete"})]_vars
    /\ [](Phase = "Complete" => self.data = Reassembled(stream))
    /\ <>(Phase = "Complete")

\* the stream of 100 and 50 payload bytes, completed
C12_Witness ==
    /\ Phase = "Complete"
    /\ fed = 2
    /\ Len(FieldPayload(stream[1].data)) = 100
    /\ Len(FieldPayload(stream[2].data)) = 50
    /\ Len(self.data) = 170
    /\ FieldTotal(self.data) = <<1, 0, 0, 0>>
    /\ FieldCurrent(self.data) = <<0, 0, 0, 0>>

\* the descriptors of the last split are at least two, and each has a
\* non-empty slice inside the buffer of self and a header.length of
\* 20 + slice length that is at most max_fragment_size
DescriptorsFit ==
    LET S == U32ToNat(descs.max_fragment_size)
    IN  /\ descs.ret.ok
        /\ descs.ret.n_fragments >= 2
        /\ Len(descs.ret.infos) = descs.ret.n_fragments
        /\ \A k \in 1..Len(descs.ret.infos) :
              LET info == descs.ret.infos[k]
                  len  == U32ToNat(info.data_length)
              IN  /\ len > 0
                  /\ info.data >= OffFragmentBuffer
                  /\ info.data + len <= Len(self.data)
                  /\ info.header.length = LittleEndian(U32(OffFragmentBuffer + len))
                  /\ OffFragmentBuffer + len <= S

\* C13 as stated: fragments fit the transport.  For every message m and
\* max_fragment_size S > 20 with m.length > S, split(m, S) returns at least
\* two descriptors, each with a non-empty payload slice that lies entirely
\* inside m's buffer and a header.length (20 + slice length) of at most S.
C13_FragmentsFit ==
    (/\ descs.called
     /\ U32ToNat(descs.max_fragment_size) > OffFragmentBuffer
     /\ LengthOf(self.data) > U32ToNat(descs.max_fragment_size))
        => DescriptorsFit

\* C13, amended: the same for every message m whose header length is not
\* larger than the byte length of its buffer.
C13_FragmentsFitWithinBuffer ==
    (/\ descs.called
     /\ U32ToNat(descs.max_fragment_size) > OffFragmentBuffer
     /\ LengthOf(self.data) > U32ToNat(descs.max_fragment_size)
     /\ LengthOf(self.data) <= Len(self.data))
        => DescriptorsFit

\* a parsed message of three payload bytes split with S = 22: slices of two
\* bytes and one byte, the last ending with the last byte of the buffer
C13_Witness ==
    /\ descs.called
    /\ descs.ret.ok
    /\ origin = "bytes"
    /\ descs.max_fragment_size = U32(OffFragmentBuffer + 2)
    /\ LengthOf(self.data) = Len(self.data)
    /\ descs.ret.n_fragments = 2
    /\ U32ToNat(descs.ret.infos[2].data_length) = 1
    /\ descs.ret.infos[2].data + 1 = Len(self.data)
    /\ DescriptorsFit

\* C14: state unchanged on rejection.  When collector_add rejects a fragment
\* as out of sequence the collector (buffer, header length, current, total,
\* reference count) is exactly as before the call and nothing is recorded
\* as accepted, so that the fragment with the expected index is accepted
\* afterwards and appended as if the rejected call had not been made; when
\* collector_init rejects a first fragment no collector message exists.
\* (A step into Rejected is a rejecting step of CollectorAdd; a step that
\* leaves result at a failed init is a rejecting step of CollectorInit.)
C14_RejectionLeavesState ==
    /\ [][(~Rejected /\ Rejected') =>
            /\ self' = self
            /\ accepted' = accepted
            /\ origin' = origin]_vars
    /\ [](Rejected =>
            \A f \in InputFragments :
                FieldCurrent(f.data) =
                    LittleEndian(U32Add(GUINT32_FROM_LE(FieldCurrent(self.data)), U32(1)))
                => LET r == _mbim_message_fragment_collector_add(self, f)
                   IN  /\ r.ok
                       /\ r.out.data = AddAppend(self, f)
                       /\ FieldPayload(r.out.data)
                            = FieldPayload(self.data) \o FieldPayload(f.data))
    /\ [][(result'.op = "init" /\ ~result'.ok) =>
            /\ self' = NoMessage
            /\ origin' = "none"
            /\ accepted' = <<>>]_vars

\* a collector that had grown by one fragment with payload when it rejected
\* a fragment, the expected index 2 being one the caller can still offer
C14_Witness ==
    /\ Rejected
    /\ origin = "collector"
    /\ accepted = <<U32(0), U32(1)>>
    /\ Len(self.data) = OffFragmentBuffer + 1
    /\ FieldCurrent(self.data) = <<1, 0, 0, 0>>
    /\ FieldCurrent(frag.data) # <<2, 0, 0, 0>>
    /\ result.err.expected[1] = U32(2)
====
